---- MODULE Spec2Model ----
(***************************************************************************)
(* Model of cipher.py: the block transposition ciphers (Stencil, Zigzag),  *)
(* their command-line encrypt / decrypt commands, and the n-gram counter   *)
(* Ngraph.  Python strings and lists are sequences of one-character        *)
(* strings / integers; Python's 0-based indices are mapped onto the        *)
(* 1-based sequences by GetItem / SetItem.                                 *)
(***************************************************************************)
EXTENDS Integers, Sequences, FiniteSets, TLC

VARIABLES
    pc,            \* which operation ran last
    cls,           \* class of the constructed cipher: "none", "Stencil", "Zigzag"
    key,           \* the key argument given to the constructor
    perm,          \* self.transposition_permutation of the constructed cipher
    plain_text,    \* argument of encrypt / content of the plain input file
    pt,            \* encrypt's local pt (filtered and padded plain text)
    cipher_text,   \* return value of encrypt / argument of decrypt
    out_text,      \* return value of decrypt
    error,         \* exception raised by the last operation, "none" if none
    permutation,   \* argument of inverse_permutation
    ip,            \* inverse_permutation(permutation)
    ipip,          \* inverse_permutation(ip)
    n,             \* Ngraph.n
    result,        \* Ngraph.result
    ct_file,       \* content of the file written by the encrypt command
    out_file       \* content of the file written by the decrypt command

vars == <<pc, cls, key, perm, plain_text, pt, cipher_text, out_text, error,
          permutation, ip, ipip, n, result, ct_file, out_file>>

-----------------------------------------------------------------------------
(* Bounds of the model                                                     *)

MaxHeight == 5
MaxWidth == 4
MaxTextLen == 72
MaxRawLen == 3
MaxPadStride == 1
MaxPadOffset == 1
MaxPermLen == 4
MaxN == 4
MaxNgraphLen == 4

-----------------------------------------------------------------------------
(* Python primitives                                                       *)

Min(a, b) == IF a < b THEN a ELSE b
Max(a, b) == IF a > b THEN a ELSE b

\* range(k): the list 0, 1, ..., k-1 (empty when k <= 0)
PyRange(k) == [i \in 1..k |-> i - 1]

\* whether s[i] is a legal subscript (negative subscripts count from the end)
InRange(s, i) == i >= 0 - Len(s) /\ i < Len(s)

\* s[i]
GetItem(s, i) == IF i < 0 THEN s[Len(s) + i + 1] ELSE s[i + 1]

\* s[i] = v
SetItem(s, i, v) == IF i < 0 THEN [s EXCEPT ![Len(s) + i + 1] = v]
                    ELSE [s EXCEPT ![i + 1] = v]

\* s[start:stop]
PySlice(s, start, stop) ==
    LET L == Len(s)
        norm(k) == IF k < 0 THEN Max(k + L, 0) ELSE Min(k, L)
        a == norm(start)
        b == norm(stop)
    IN  IF a >= b THEN << >> ELSE SubSeq(s, a + 1, b)

Digits == <<"0", "1", "2", "3", "4", "5", "6", "7", "8", "9">>

IndexIn(s, c) == CHOOSE i \in 1..Len(s) : s[i] = c

Contains(s, c) == \E i \in 1..Len(s) : s[i] = c

\* str.split(sep) for a one-character separator
RECURSIVE Split(_, _)
Split(s, sep) ==
    IF ~Contains(s, sep) THEN <<s>>
    ELSE LET i == CHOOSE j \in 1..Len(s) :
                      s[j] = sep /\ \A k \in 1..(j - 1) : s[k] # sep
         IN  <<SubSeq(s, 1, i - 1)>> \o Split(SubSeq(s, i + 1, Len(s)), sep)

\* str.strip() restricted to blanks
RECURSIVE Strip(_)
Strip(s) ==
    IF s = << >> THEN s
    ELSE IF Head(s) = " " THEN Strip(Tail(s))
    ELSE IF s[Len(s)] = " " THEN Strip(SubSeq(s, 1, Len(s) - 1))
    ELSE s

RECURSIVE DigitsValue(_)
DigitsValue(s) ==
    IF s = << >> THEN 0
    ELSE 10 * DigitsValue(SubSeq(s, 1, Len(s) - 1)) + (IndexIn(Digits, s[Len(s)]) - 1)

\* int(s): [ok |-> FALSE] stands for ValueError
PyInt(s) ==
    LET t == Strip(s)
        signed == t # << >> /\ Head(t) \in {"-", "+"}
        d == IF signed THEN Tail(t) ELSE t
    IN  IF d = << >> \/ \E i \in 1..Len(d) : ~Contains(Digits, d[i])
        THEN [ok |-> FALSE, val |-> 0]
        ELSE [ok |-> TRUE,
              val |-> IF signed /\ Head(t) = "-" THEN 0 - DigitsValue(d)
                      ELSE DigitsValue(d)]

\* str(k)
RECURSIVE PyStr(_)
PyStr(k) ==
    IF k < 0 THEN <<"-">> \o PyStr(0 - k)
    ELSE IF k < 10 THEN <<Digits[k + 1]>>
    ELSE PyStr(k \div 10) \o <<Digits[(k % 10) + 1]>>

-----------------------------------------------------------------------------
(* Simple_Cipher                                                           *)

pt_alphabet == <<"A", "B", "C", "D", "E", "F", "G", "H", "I", "J", "K", "L", "M",
                 "N", "O", "P", "Q", "R", "S", "T", "U", "V", "W", "X", "Y", "Z">>

lower_case == <<"a", "b", "c", "d", "e", "f", "g", "h", "i", "j", "k", "l", "m",
                "n", "o", "p", "q", "r", "s", "t", "u", "v", "w", "x", "y", "z">>

\* c.upper() for one character
Upper(c) == IF Contains(lower_case, c) THEN pt_alphabet[IndexIn(lower_case, c)] ELSE c

\* the loop of preprocess keeps, in order, the characters of plain_text.upper()
\* that pass its tests
preprocess(text, remove_spaces) ==
    LET upper == [i \in 1..Len(text) |-> Upper(text[i])]
        Kept(c) == \/ Contains(pt_alphabet, c)
                   \/ (c = " " /\ ~remove_spaces)
    IN  SelectSeq(upper, Kept)

-----------------------------------------------------------------------------
(* Block_Transposition_Cipher                                              *)

NoError == "none"

\* the transposition loops: for b in range(blocks): for position in positions:
\*     output.append( text[ position + b*block_size ] )
block_offset(b, block_size) == b * block_size

source_index(positions, k, block_size) ==
    GetItem(positions, k % block_size) + block_offset(k \div block_size, block_size)

transpose_blocks(text, positions, blocks, block_size) ==
    IF \E k \in 0..(blocks * block_size - 1) :
           ~InRange(text, source_index(positions, k, block_size))
    THEN [err |-> "IndexError", out |-> << >>]
    ELSE [err |-> NoError,
          out |-> [k \in 1..(blocks * block_size) |->
                      GetItem(text, source_index(positions, k - 1, block_size))]]

\* pt += ''.join(pad_chars), the pad characters being the outcomes of
\* random.choice( self.pt_alphabet )
pad(text, block_size, remainder, choices) ==
    LET num_pad_chars == block_size - remainder
    IN  text \o SubSeq(choices, 1, num_pad_chars)

\* faulty variant of padded_blocks: the block count is not raised for the pad
padded_blocks_not_raised(blocks, remainder) == blocks

\* blocks += 1 when a pad was added
padded_blocks(blocks, remainder) == IF remainder # 0 THEN blocks + 1 ELSE blocks

encrypt(transposition_permutation, text, choices) ==
    LET filtered == preprocess(text, TRUE)
        block_size == Len(transposition_permutation)
    IN  IF block_size = 0
        THEN [err |-> "ZeroDivisionError", pt |-> filtered, out |-> << >>]
        ELSE LET blocks == Len(filtered) \div block_size
                 remainder == Len(filtered) % block_size
                 padded == IF remainder # 0
                           THEN pad(filtered, block_size, remainder, choices)
                           ELSE filtered
                 t == transpose_blocks(padded, transposition_permutation,
                                       padded_blocks(blocks, remainder), block_size)
             IN  [err |-> t.err, pt |-> padded, out |-> t.out]

\* faulty variant of inverse_step: index and value exchanged,
\*     ip[ permutation[indx] ] = permutation[ value ]
inverse_step_exchanged(inv, p, indx) ==
    LET value == GetItem(p, indx)
    IN  SetItem(inv, GetItem(p, indx), GetItem(p, value))

\* one iteration of the loop of inverse_permutation:
\*     ip[ permutation[value] ] = permutation[ indx ]   with value = permutation[indx]
inverse_step(inv, p, indx) ==
    LET value == GetItem(p, indx)
    IN  SetItem(inv, GetItem(p, value), GetItem(p, indx))

RECURSIVE inverse_loop(_, _, _)
inverse_loop(inv, p, indx) ==
    IF indx >= Len(p) THEN [err |-> NoError, ip |-> inv]
    ELSE IF ~InRange(p, GetItem(p, indx))
            \/ ~InRange(inv, GetItem(p, GetItem(p, indx)))
         THEN [err |-> "IndexError", ip |-> inv]
         ELSE inverse_loop(inverse_step(inv, p, indx), p, indx + 1)

\* faulty variant of inverse_permutation: the permutation is returned as it is
inverse_permutation_not_inverted(p) == [err |-> NoError, ip |-> p]

inverse_permutation(p) == inverse_loop(PyRange(Len(p)), p, 0)

\* faulty variant of block_aligned: no assertion
block_aligned_unchecked(remainder) == TRUE

\* assert remainder == 0
block_aligned(remainder) == remainder = 0

decrypt(transposition_permutation, text) ==
    LET block_size == Len(transposition_permutation)
    IN  IF block_size = 0 THEN [err |-> "ZeroDivisionError", out |-> << >>]
        ELSE LET blocks == Len(text) \div block_size
                 remainder == Len(text) % block_size
                 inv == inverse_permutation(transposition_permutation)
             IN  IF ~block_aligned(remainder)
                 THEN [err |-> "AssertionError", out |-> << >>]
                 ELSE IF inv.err # NoError THEN [err |-> inv.err, out |-> << >>]
                 ELSE transpose_blocks(text, inv.ip, blocks, block_size)

-----------------------------------------------------------------------------
(* Stencil and Zigzag                                                      *)

StencilPermutation ==
    <<9, 0, 18, 1, 10, 2, 19, 27, 3, 28, 20, 29, 11, 4, 12, 5, 30, 13,
      31, 14, 21, 32, 22, 33, 15, 6, 16, 23, 17, 7, 24, 34, 25, 8, 26, 35>>

\* Stencil.__init__: the key is not used
StencilInit(k) == [err |-> NoError, perm |-> StencilPermutation]

\* h, w = key.split('x'); height, width = int(h), int(w)
ZigzagKey(k) ==
    LET parts == Split(k, "x")
    IN  IF Len(parts) # 2 THEN [ok |-> FALSE, height |-> 0, width |-> 0]
        ELSE LET h == PyInt(parts[1])
                 w == PyInt(parts[2])
             IN  IF h.ok /\ w.ok THEN [ok |-> TRUE, height |-> h.val, width |-> w.val]
                 ELSE [ok |-> FALSE, height |-> 0, width |-> 0]

\* faulty variant of zigzag_index: every column is written downwards
zigzag_index_no_zig(x, y, height, width) == y * width + x

\* index = y_*width + x, y_ counted from the bottom in odd columns
zigzag_index(x, y, height, width) ==
    LET y_ == IF x % 2 # 0 THEN height - y - 1 ELSE y
    IN  y_ * width + x

\* faulty variant of zigzag_value: the column stride is the width
zigzag_value_width_stride(x, y, height, width) == x * width + y

\* the value stored at index
zigzag_value(x, y, height, width) == x * height + y

\* for y in range(height): ... self.transposition_permutation[index] = x*height + y
\* (the assignment raises IndexError when index is no subscript of the list)
RECURSIVE zigzag_column(_, _, _, _, _)
zigzag_column(r, height, width, x, y) ==
    IF r.err # NoError \/ y >= height THEN r
    ELSE IF ~InRange(r.perm, zigzag_index(x, y, height, width))
         THEN [err |-> "IndexError", perm |-> r.perm]
         ELSE zigzag_column([err |-> NoError,
                             perm |-> SetItem(r.perm, zigzag_index(x, y, height, width),
                                              zigzag_value(x, y, height, width))],
                            height, width, x, y + 1)

\* for x in range(width): ...
RECURSIVE zigzag_loop(_, _, _, _)
zigzag_loop(r, height, width, x) ==
    IF r.err # NoError \/ x >= width THEN r
    ELSE zigzag_loop(zigzag_column(r, height, width, x, 0), height, width, x + 1)

ZigzagInit(k) ==
    LET parsed == ZigzagKey(k)
    IN  IF ~parsed.ok THEN [err |-> "ValueError", perm |-> << >>]
        ELSE zigzag_loop([err |-> NoError,
                          perm |-> PyRange(parsed.width * parsed.height)],
                         parsed.height, parsed.width, 0)

\* cipher_dict[cipher_name](key)
NewCipher(cipher_name, k) ==
    IF cipher_name = "stencil" THEN StencilInit(k) ELSE ZigzagInit(k)

ClassOf(cipher_name) == IF cipher_name = "stencil" THEN "Stencil" ELSE "Zigzag"

-----------------------------------------------------------------------------
(* Distribution: Ngraph                                                    *)

\* the argument of range() in the loop of analyze
window_positions(text, size) == Len(text) - size - 1

\* if nary in self.result: self.result[nary] += 1  else: self.result[nary] = 1
count_nary(res, nary) ==
    IF nary \in DOMAIN res THEN [res EXCEPT ![nary] = @ + 1]
    ELSE res @@ (nary :> 1)

RECURSIVE analyze_loop(_, _, _, _)
analyze_loop(res, text, size, i) ==
    IF i >= window_positions(text, size) THEN res
    ELSE analyze_loop(count_nary(res, PySlice(text, i, i + size)), text, size, i + 1)

\* Ngraph(n).analyze(text); no statement of it raises
analyze(size, text) == [err |-> NoError, result |-> analyze_loop(<< >>, text, size, 0)]

-----------------------------------------------------------------------------
(* Inputs                                                                  *)

SeqsUpTo(S, len) == UNION {[1..k -> S] : k \in 0..len}

\* short texts with characters inside and outside the plain text alphabet
RawChars == {"A", "b", " "}
RawTexts == SeqsUpTo(RawChars, MaxRawLen)

\* filtered texts A B C ... of every length up to MaxTextLen
Run(len) == [i \in 1..len |-> pt_alphabet[((i - 1) % Len(pt_alphabet)) + 1]]
LongTexts == {Run(len) : len \in 0..MaxTextLen}

Texts == RawTexts \cup LongTexts

\* outcomes of the calls of random.choice( self.pt_alphabet )
RandomChoices(num) ==
    {[i \in 1..num |-> pt_alphabet[((c + a * (i - 1)) % Len(pt_alphabet)) + 1]] :
        a \in 0..MaxPadStride, c \in 0..MaxPadOffset}

\* number of calls of random.choice encrypt makes
NumChoices(p, text) ==
    LET len == Len(preprocess(text, TRUE))
    IN  IF Len(p) = 0 \/ len % Len(p) = 0 THEN 0 ELSE Len(p) - (len % Len(p))

\* keys of the form '9x8', zero and negative sizes included, and other strings
KeyOf(h, w) == PyStr(h) \o <<"x">> \o PyStr(w)
GridKeys == {KeyOf(h, w) : h \in (0 - 1)..MaxHeight, w \in (0 - 1)..MaxWidth}
OtherKeys == {<< >>, <<"3">>, <<"x">>, <<"3", "x">>, <<"a", "x", "2">>,
              <<"2", "x", "3", "x", "4">>, <<" ", "2", "x", "+", "3">>}
ZigzagKeys == GridKeys \cup OtherKeys
StencilKeys == {<< >>, KeyOf(5, 4)}
KeysOf(cipher_name) == IF cipher_name = "stencil" THEN StencilKeys ELSE ZigzagKeys
cipher_name_list == {"stencil", "zigzag"}

\* lists of length len with entries in 0..len-1, bijective or not
PermInputs == UNION {[1..len -> 0..(len - 1)] : len \in 0..MaxPermLen}

NgraphTexts == SeqsUpTo({"A", "B"}, MaxNgraphLen)
NgraphSizes == (0 - 1)..MaxN

-----------------------------------------------------------------------------
(* State machine                                                           *)

Init ==
    /\ pc = "start"
    /\ cls = "none"
    /\ key = << >>
    /\ perm = << >>
    /\ plain_text = << >>
    /\ pt = << >>
    /\ cipher_text = << >>
    /\ out_text = << >>
    /\ error = NoError
    /\ permutation = << >>
    /\ ip = << >>
    /\ ipip = << >>
    /\ n = 1
    /\ result = << >>
    /\ ct_file = << >>
    /\ out_file = << >>

\* cipher = Cipher(key)
Construct(cipher_name, k) ==
    /\ pc = "start"
    /\ LET c == NewCipher(cipher_name, k)
       IN  /\ error' = c.err
           /\ pc' = IF c.err = NoError THEN "constructed" ELSE "failed"
           /\ cls' = IF c.err = NoError THEN ClassOf(cipher_name) ELSE "none"
           /\ perm' = c.perm
    /\ key' = k
    /\ UNCHANGED <<plain_text, pt, cipher_text, out_text, permutation, ip, ipip,
                   n, result, ct_file, out_file>>

NewStencil == \E k \in StencilKeys : Construct("stencil", k)

NewZigzag == \E k \in ZigzagKeys : Construct("zigzag", k)

\* cipher.encrypt(text)
Encrypt ==
    /\ pc = "constructed"
    /\ \E text \in Texts : \E choices \in RandomChoices(NumChoices(perm, text)) :
          LET e == encrypt(perm, text, choices)
          IN  /\ plain_text' = text
              /\ pt' = e.pt
              /\ cipher_text' = e.out
              /\ error' = e.err
              /\ pc' = IF e.err = NoError THEN "encrypted" ELSE "failed"
    /\ UNCHANGED <<cls, key, perm, out_text, permutation, ip, ipip, n, result,
                   ct_file, out_file>>

\* cipher.decrypt(text), on any text or on what encrypt returned
Decrypt ==
    /\ pc \in {"constructed", "encrypted"}
    /\ \E text \in (IF pc = "encrypted" THEN {cipher_text} ELSE Texts) :
          LET d == decrypt(perm, text)
          IN  /\ cipher_text' = text
              /\ out_text' = d.out
              /\ error' = d.err
              /\ pc' = IF pc = "encrypted" THEN "roundtrip" ELSE "decrypted"
    /\ UNCHANGED <<cls, key, perm, plain_text, pt, permutation, ip, ipip, n,
                   result, ct_file, out_file>>

\* ip = self.inverse_permutation(p)
Invert ==
    /\ pc = "start"
    /\ \E p \in PermInputs :
          LET r == inverse_permutation(p)
          IN  /\ permutation' = p
              /\ ip' = r.ip
              /\ error' = r.err
              /\ pc' = IF r.err = NoError THEN "inverted" ELSE "failed"
    /\ UNCHANGED <<cls, key, perm, plain_text, pt, cipher_text, out_text, ipip,
                   n, result, ct_file, out_file>>

\* self.inverse_permutation(ip)
InvertAgain ==
    /\ pc = "inverted"
    /\ LET r == inverse_permutation(ip)
       IN  /\ ipip' = r.ip
           /\ error' = r.err
           /\ pc' = IF r.err = NoError THEN "inverted_twice" ELSE "failed"
    /\ UNCHANGED <<cls, key, perm, plain_text, pt, cipher_text, out_text,
                   permutation, ip, n, result, ct_file, out_file>>

\* Ngraph(n)
NewNgraph ==
    /\ pc = "start"
    /\ \E size \in NgraphSizes : n' = size
    /\ pc' = "ngraph"
    /\ UNCHANGED <<cls, key, perm, plain_text, pt, cipher_text, out_text, error,
                   permutation, ip, ipip, result, ct_file, out_file>>

\* Ngraph.analyze(text)
Analyze ==
    /\ pc = "ngraph"
    /\ \E text \in NgraphTexts :
          LET a == analyze(n, text)
          IN  /\ plain_text' = text
              /\ result' = a.result
              /\ error' = a.err
    /\ pc' = "analyzed"
    /\ UNCHANGED <<cls, key, perm, pt, cipher_text, out_text, permutation, ip,
                   ipip, n, ct_file, out_file>>

\* the encrypt command: construct the cipher, read the input file, encrypt,
\* write the cipher text and "\n"
CmdEncrypt ==
    /\ pc = "start"
    /\ \E cipher_name \in cipher_name_list : \E k \in KeysOf(cipher_name) :
       \E text \in Texts :
          LET c == NewCipher(cipher_name, k)
          IN  /\ key' = k
              /\ perm' = c.perm
              /\ plain_text' = text
              /\ IF c.err # NoError
                 THEN /\ cls' = "none"
                      /\ error' = c.err
                      /\ pc' = "cmd_failed"
                      /\ UNCHANGED <<pt, cipher_text, ct_file>>
                 ELSE \E choices \in RandomChoices(NumChoices(c.perm, text)) :
                         LET e == encrypt(c.perm, text, choices)
                         IN  /\ cls' = ClassOf(cipher_name)
                             /\ pt' = e.pt
                             /\ cipher_text' = e.out
                             /\ error' = e.err
                             /\ IF e.err # NoError
                                THEN pc' = "cmd_failed" /\ UNCHANGED ct_file
                                ELSE /\ pc' = "cmd_encrypted"
                                     /\ ct_file' = e.out \o <<"\n">>
    /\ UNCHANGED <<out_text, permutation, ip, ipip, n, result, out_file>>

\* the decrypt command, run with the same cipher and key on the file the
\* encrypt command wrote: construct the cipher, read the file, decrypt,
\* write the plain text and "\n"
CmdDecrypt ==
    /\ pc = "cmd_encrypted"
    /\ LET cipher_name == IF cls = "Stencil" THEN "stencil" ELSE "zigzag"
           c == NewCipher(cipher_name, key)
           d == decrypt(c.perm, ct_file)
       IN  /\ out_text' = d.out
           /\ error' = d.err
           /\ IF d.err # NoError
              THEN pc' = "cmd_failed" /\ UNCHANGED out_file
              ELSE pc' = "cmd_decrypted" /\ out_file' = d.out \o <<"\n">>
    /\ UNCHANGED <<cls, key, perm, plain_text, pt, cipher_text, permutation, ip,
                   ipip, n, result, ct_file>>

NextCipher == NewStencil \/ NewZigzag \/ Encrypt \/ Decrypt
NextInverse == Invert \/ InvertAgain
NextNgraph == NewNgraph \/ Analyze
NextCli == CmdEncrypt \/ CmdDecrypt
Next == NextCipher \/ NextInverse \/ NextNgraph \/ NextCli

SpecCipher == Init /\ [][NextCipher]_vars
SpecInverse == Init /\ [][NextInverse]_vars
SpecNgraph == Init /\ [][NextNgraph]_vars
SpecCli == Init /\ [][NextCli]_vars
Spec == Init /\ [][Next]_vars

-----------------------------------------------------------------------------
(* Properties                                                              *)

\* every index of 0..Len(p)-1 occurs exactly once in p
IsBijection(p) ==
    \A v \in 0..(Len(p) - 1) : Cardinality({i \in 1..Len(p) : p[i] = v}) = 1

\* the text holds symbols of the plain text alphabet only
IsFiltered(text) == \A i \in 1..Len(text) : Contains(pt_alphabet, text[i])

\* the constructed cipher is a Stencil, or a Zigzag of height >= 1 and width >= 1
ProperCipher ==
    \/ cls = "Stencil"
    \/ /\ cls = "Zigzag"
       /\ ZigzagKey(key).ok
       /\ ZigzagKey(key).height >= 1
       /\ ZigzagKey(key).width >= 1

\* C1 - Round trip, aligned: with a Stencil or a Zigzag of height >= 1 and
\* width >= 1, for a filtered text whose length is a multiple of the block size,
\* encrypt does not fail, decrypt of its result does not fail, and
\* decrypt(encrypt(text)) == text.
RoundTripAligned ==
    (/\ ProperCipher
     /\ IsFiltered(plain_text)
     /\ Len(plain_text) % Len(perm) = 0)
    => /\ pc # "failed"
       /\ pc = "roundtrip" => (error = NoError /\ out_text = plain_text)

RoundTripAlignedWitness ==
    /\ pc = "roundtrip"
    /\ cls = "Stencil"
    /\ IsFiltered(plain_text)
    /\ Len(plain_text) = 2 * Len(perm)
    /\ cipher_text # plain_text
    /\ out_text = plain_text

\* C2 - Round trip, padded: with the same ciphers, for a filtered text of length
\* k*B + r, 0 < r < B, decrypt(encrypt(text)) starts with text and has exactly
\* B - r more symbols, each of the plain text alphabet, whatever the pad drawn.
RoundTripPadded ==
    (/\ ProperCipher
     /\ IsFiltered(plain_text)
     /\ Len(plain_text) % Len(perm) # 0)
    => /\ pc # "failed"
       /\ pc = "roundtrip" =>
            /\ error = NoError
            /\ Len(out_text) = Len(plain_text) + Len(perm) - (Len(plain_text) % Len(perm))
            /\ SubSeq(out_text, 1, Len(plain_text)) = plain_text
            /\ \A i \in (Len(plain_text) + 1)..Len(out_text) :
                  Contains(pt_alphabet, out_text[i])

RoundTripPaddedWitness ==
    /\ pc = "roundtrip"
    /\ cls = "Zigzag"
    /\ ProperCipher
    /\ IsFiltered(plain_text)
    /\ Len(plain_text) > Len(perm)
    /\ Len(perm) - (Len(plain_text) % Len(perm)) \in 2..(Len(perm) - 1)
    /\ Len(out_text) > Len(plain_text)
    /\ out_text[Len(out_text)] # out_text[Len(out_text) - 1]

\* C3 - Inversion law: for a bijection P on 0..B-1, inverse_permutation(P)
\* does not fail and returns Q of length B with Q[P[i]] = i for every i, and
\* inverse_permutation(inverse_permutation(P)) == P.
InversionLaw ==
    IsBijection(permutation) =>
       /\ pc # "failed"
       /\ pc \in {"inverted", "inverted_twice"} =>
            /\ Len(ip) = Len(permutation)
            /\ \A i \in 0..(Len(permutation) - 1) :
                  GetItem(ip, GetItem(permutation, i)) = i
       /\ pc = "inverted_twice" => ipip = permutation

InversionLawWitness ==
    /\ pc = "inverted_twice"
    /\ IsBijection(permutation)
    /\ Len(permutation) >= 3
    /\ ip # permutation
    /\ ipip = permutation

\* sum of the counts of an n-gram table
RECURSIVE SumCounts(_)
SumCounts(res) ==
    IF DOMAIN res = {} THEN 0
    ELSE LET k == CHOOSE k \in DOMAIN res : TRUE
         IN  res[k] + SumCounts([x \in (DOMAIN res) \ {k} |-> res[x]])

\* C4 - N-gram exhaustiveness: for a text of length L and 1 <= n <= L the counts
\* of the table Ngraph(n).analyze(text) returns sum to L - n + 1.
NgramExhaustiveness ==
    (pc = "analyzed" /\ n >= 1 /\ n <= Len(plain_text))
    => SumCounts(result) = Len(plain_text) - n + 1

\* C5 - Misalignment rejection: decrypt of a text whose length is not a multiple
\* of the block size B fails and returns nothing; for B >= 1 the failure is the
\* alignment assertion.
MisalignmentRejection ==
    pc \in {"decrypted", "roundtrip"} =>
       /\ (Len(perm) >= 1 /\ Len(cipher_text) % Len(perm) # 0)
             => (error = "AssertionError" /\ out_text = << >>)
       /\ (Len(perm) = 0 /\ Len(cipher_text) # 0)
             => (error # NoError /\ out_text = << >>)

MisalignmentRejectionWitness ==
    /\ pc = "decrypted"
    /\ Len(perm) >= 2
    /\ Len(cipher_text) > Len(perm)
    /\ Len(cipher_text) % Len(perm) # 0
    /\ error = "AssertionError"
    /\ out_text = << >>

\* C6 - Zigzag key validation: a Zigzag is constructed only from a key that
\* parses as two positive integers; no Zigzag with an empty permutation exists.
ZigzagKeyValidation ==
    cls = "Zigzag" =>
       /\ ZigzagKey(key).ok
       /\ ZigzagKey(key).height >= 1
       /\ ZigzagKey(key).width >= 1
       /\ Len(perm) # 0

\* C7 - N-gram window validation: analyze fails when n <= 0 or n > len(text);
\* it returns no table then.
NgramWindowValidation ==
    (pc = "analyzed" /\ (n <= 0 \/ n > Len(plain_text)))
    => error # NoError

\* C8 - Permutation bijection: the Stencil table has length 36, a Zigzag of
\* height >= 1 and width >= 1 has length height*width, and each holds every
\* index of 0..B-1 exactly once.
PermutationBijection ==
    /\ cls = "Stencil" => (Len(perm) = 36 /\ IsBijection(perm))
    /\ (cls = "Zigzag" /\ ProperCipher) =>
          /\ Len(perm) = ZigzagKey(key).height * ZigzagKey(key).width
          /\ IsBijection(perm)

PermutationBijectionWitness ==
    /\ pc = "constructed"
    /\ cls = "Zigzag"
    /\ ZigzagKey(key).ok
    /\ ZigzagKey(key).height = 4
    /\ ZigzagKey(key).width = 3
    /\ Len(perm) = 12
    /\ IsBijection(perm)

ZigzagFixture == <<0, 9, 10, 19, 1, 8, 11, 18, 2, 7, 12, 17, 3, 6, 13, 16, 4, 5, 14, 15>>

\* C9 - Zigzag geometry: for height >= 1 and width >= 1 the permutation P has
\* P[y_*width + x] = x*height + y for every column x and every y, y_ = y in even
\* columns and height-1-y in odd ones; for height 5 and width 4 it is
\* (0,9,10,19,1,8,11,18,2,7,12,17,3,6,13,16,4,5,14,15).
ZigzagGeometry ==
    (cls = "Zigzag" /\ ProperCipher) =>
       LET height == ZigzagKey(key).height
           width == ZigzagKey(key).width
       IN  /\ \A x \in 0..(width - 1) : \A y \in 0..(height - 1) :
                 perm[(IF x % 2 = 0 THEN y ELSE height - 1 - y) * width + x + 1]
                    = x * height + y
           /\ (height = 5 /\ width = 4) => perm = ZigzagFixture

ZigzagGeometryWitness ==
    /\ pc = "constructed"
    /\ cls = "Zigzag"
    /\ ZigzagKey(key).height = 5
    /\ ZigzagKey(key).width = 4
    /\ perm = ZigzagFixture

\* C10 - Command-level round trip: for a cipher of block size B >= 1, the
\* decrypt command run on the file the encrypt command wrote does not fail and
\* writes the padded filtered plain text (followed by the newline the command
\* adds).
CommandRoundTrip ==
    (Len(perm) >= 1 /\ ct_file # << >>) =>
       /\ pc # "cmd_failed"
       /\ pc = "cmd_decrypted" => out_file \in {pt, pt \o <<"\n">>}

====
